---------------------------- MODULE Spec2Model ----------------------------
(***************************************************************************)
(* A model of the doomfire crate (src/doomfire/src/lib.rs): the intensity  *)
(* grid `fire_pixels`, the `is_lit` flag, and the operations new, ignite,  *)
(* extinguish, update and draw.                                            *)
(*                                                                         *)
(* update() is modelled at the granularity of its loop body: UpdateBegin   *)
(* enters the call, every UpdateCell step is one iteration of the nested   *)
(* loop for the source cell (x, y), and the last iteration returns.  No    *)
(* other operation can run while pc = "update" (the crate is               *)
(* single-threaded and update takes &mut self).                            *)
(*                                                                         *)
(* A Rust panic (index out of bounds, or an arithmetic overflow in a build *)
(* with overflow checks) ends the run: pc = "panicked".  Whether usize     *)
(* arithmetic panics or wraps on overflow depends on the build profile, so *)
(* `overflow_checks` is chosen at construction and both builds are         *)
(* explored.                                                               *)
(***************************************************************************)
EXTENDS Integers, Sequences, FiniteSets

VARIABLES
    width,            \* Doomfire.width
    height,           \* Doomfire.height
    is_lit,           \* Doomfire.is_lit
    fire_pixels,      \* Doomfire.fire_pixels, a function 0..width*height-1 -> intensity
    overflow_checks,  \* build profile: TRUE = debug (overflow panics), FALSE = release (wraps)
    pc,               \* "idle" | "update" | "panicked"
    x,                \* update's outer loop variable (column)
    y,                \* update's inner loop variable (row)
    updates,          \* number of update() calls that have returned
    last_call,        \* the operation called most recently ("new" right after construction)
    last_switch,      \* the last of ignite() and extinguish() to have returned ("none" before any)
    ignites,          \* how many of the most recent calls in a row were ignite(), counted to 2
    last_write,       \* << dst_idx, value >> of the write of update's last iteration, or << >>
    drawn,            \* << rand >> of update's last iteration, << >> when it drew nothing
    frame             \* the pixel buffer handed to the draw() call that was the last call

vars == << width, height, is_lit, fire_pixels, overflow_checks, pc, x, y,
           updates, last_call, last_switch, ignites, last_write, drawn, frame >>

---------------------------------------------------------------------------
(* Bounds of the model. *)

MaxWidth == 3

MaxHeight == 3

\* Only grids of at most MaxCells cells are constructed.
MaxCells == 6

MaxUpdates == 2

\* draw() is tried with buffers of every length within MaxSlack bytes of width*height*4.
MaxSlack == 4

---------------------------------------------------------------------------
(* The palette. *)

PALETTE ==
    << <<7, 7, 7, 255>>,
       <<31, 7, 7, 255>>,
       <<47, 15, 7, 255>>,
       <<71, 15, 7, 255>>,
       <<87, 23, 7, 255>>,
       <<103, 31, 7, 255>>,
       <<119, 31, 7, 255>>,
       <<143, 39, 7, 255>>,
       <<159, 47, 7, 255>>,
       <<175, 63, 7, 255>>,
       <<191, 71, 7, 255>>,
       <<199, 71, 7, 255>>,
       <<223, 79, 7, 255>>,
       <<223, 87, 7, 255>>,
       <<223, 87, 7, 255>>,
       <<215, 95, 7, 255>>,
       <<215, 95, 7, 255>>,
       <<215, 103, 15, 255>>,
       <<207, 111, 15, 255>>,
       <<207, 119, 15, 255>>,
       <<207, 127, 15, 255>>,
       <<207, 135, 23, 255>>,
       <<199, 135, 23, 255>>,
       <<199, 143, 23, 255>>,
       <<199, 151, 31, 255>>,
       <<191, 159, 31, 255>>,
       <<191, 159, 31, 255>>,
       <<191, 167, 39, 255>>,
       <<191, 167, 39, 255>>,
       <<191, 175, 47, 255>>,
       <<183, 175, 47, 255>>,
       <<183, 183, 47, 255>>,
       <<183, 183, 55, 255>>,
       <<207, 207, 111, 255>>,
       <<223, 223, 159, 255>>,
       <<239, 239, 199, 255>>,
       <<255, 255, 255, 255>> >>

\* PALETTE[v] of the source, whose indices start at 0.
PaletteAt(v) == PALETTE[v + 1]

---------------------------------------------------------------------------
(* usize arithmetic.  Every operation yields the wrapped value and whether *)
(* it overflowed.  The grids of the model are tiny, so any width of at     *)
(* least 16 bits (the narrowest usize Rust has) gives the same outcomes.   *)

UsizeBits == 16

UsizeModulus == 2 ^ UsizeBits

USub(a, b) == [val |-> (a - b) % UsizeModulus, ovf |-> a < b]

UAdd(a, b) == [val |-> (a + b) % UsizeModulus, ovf |-> a + b >= UsizeModulus]

UMul(a, b) == [val |-> (a * b) % UsizeModulus, ovf |-> a * b >= UsizeModulus]

\* A usize computation panics when it overflowed in a build with overflow checks.
OverflowPanics(r) == overflow_checks /\ r.ovf

\* An index into fire_pixels is in bounds.
InBounds(idx) == idx < width * height

---------------------------------------------------------------------------
(* new *)

\* vec![0; width * height]
NewPixels(w, h) == [i \in 0 .. (w * h - 1) |-> 0]

Init ==
    /\ width \in 0 .. MaxWidth
    /\ height \in 0 .. MaxHeight
    /\ width * height <= MaxCells
    /\ overflow_checks \in BOOLEAN
    /\ is_lit = FALSE
    /\ fire_pixels = NewPixels(width, height)
    /\ pc = "idle"
    /\ x = 0
    /\ y = 0
    /\ updates = 0
    /\ last_call = "new"
    /\ last_switch = "none"
    /\ ignites = 0
    /\ last_write = << >>
    /\ drawn = << >>
    /\ frame = << >>

---------------------------------------------------------------------------
(* ignite *)

\* PALETTE.len() - 1
IgniteValue == Len(PALETTE) - 1

\* Mutant of IgniteIdx: the top row is addressed instead of the bottom row.
IgniteIdxTopRow(i) == [val |-> i, ovf |-> FALSE]

\* (self.height - 1) * self.width + i
IgniteIdx(i) ==
    LET t1 == USub(height, 1)
        t2 == UMul(t1.val, width)
        t3 == UAdd(t2.val, i)
    IN  [val |-> t3.val, ovf |-> t1.ovf \/ t2.ovf \/ t3.ovf]

\* The iterations of ignite's loop that panic.
IgniteBad == { i \in 0 .. (width - 1) :
                 OverflowPanics(IgniteIdx(i)) \/ ~InBounds(IgniteIdx(i).val) }

\* Mutant of IgnitePixels: the loop adds the hottest value instead of storing it.
IgnitePixelsAdd(pixels, n) ==
    LET written == { IgniteIdx(i).val : i \in 0 .. (n - 1) }
    IN  [k \in DOMAIN pixels |->
            IF k \in written THEN pixels[k] + (Len(PALETTE) - 1) ELSE pixels[k]]

\* fire_pixels after the iterations 0 .. n-1 of ignite's loop.
IgnitePixels(pixels, n) ==
    LET written == { IgniteIdx(i).val : i \in 0 .. (n - 1) }
    IN  [k \in DOMAIN pixels |-> IF k \in written THEN IgniteValue ELSE pixels[k]]

Min(S) == CHOOSE m \in S : \A n \in S : m <= n

Ignite ==
    /\ pc = "idle"
    /\ last_call' = "ignite"
    /\ ignites' = IF ignites < 2 THEN ignites + 1 ELSE ignites
    /\ last_write' = << >>
    /\ drawn' = << >>
    /\ frame' = << >>
    /\ IF IgniteBad = {}
       THEN /\ fire_pixels' = IgnitePixels(fire_pixels, width)
            /\ is_lit' = TRUE
            /\ pc' = "idle"
            /\ last_switch' = "ignite"
       ELSE /\ fire_pixels' = IgnitePixels(fire_pixels, Min(IgniteBad))
            /\ is_lit' = is_lit
            /\ pc' = "panicked"
            /\ last_switch' = last_switch
    /\ UNCHANGED << width, height, overflow_checks, x, y, updates >>

---------------------------------------------------------------------------
(* extinguish *)

\* Mutant of ExtinguishPixels: the commented-out loop runs and clears the bottom row.
ExtinguishClearsRow(pixels) ==
    [k \in DOMAIN pixels |-> IF k >= (height - 1) * width THEN 0 ELSE pixels[k]]

\* The loop that would clear the bottom row is commented out in the source.
ExtinguishPixels(pixels) == pixels

\* Mutant of Extinguish: the call returns without clearing the lit flag.
ExtinguishStaysLit ==
    /\ pc = "idle"
    /\ last_call' = "extinguish"
    /\ last_switch' = "extinguish"
    /\ ignites' = 0
    /\ last_write' = << >>
    /\ drawn' = << >>
    /\ frame' = << >>
    /\ fire_pixels' = ExtinguishPixels(fire_pixels)
    /\ UNCHANGED << width, height, overflow_checks, is_lit, pc, x, y, updates >>

Extinguish ==
    /\ pc = "idle"
    /\ last_call' = "extinguish"
    /\ last_switch' = "extinguish"
    /\ ignites' = 0
    /\ last_write' = << >>
    /\ drawn' = << >>
    /\ frame' = << >>
    /\ fire_pixels' = ExtinguishPixels(fire_pixels)
    /\ is_lit' = FALSE
    /\ UNCHANGED << width, height, overflow_checks, pc, x, y, updates >>

---------------------------------------------------------------------------
(* update *)

\* The upper limit of gen_range(0.0, 3.0).
GenRangeHigh == 3

\* A sample of gen_range(0.0, 3.0), to the half unit: k stands for the
\* samples in [k/2, (k+1)/2).
HalfSamples == 0 .. (2 * GenRangeHigh - 1)

\* f64::round of a sample in [k/2, (k+1)/2): halves round away from zero.
Round(k) == (k + 1) \div 2

\* gen_range(0.0, 3.0).round() as usize & 3
RandOf(k) == Round(k) % 4

\* Every value a draw can take.
Rands == { RandOf(k) : k \in HalfSamples }

\* let max_idx = self.width * self.height - 1
MaxIdx ==
    LET t1 == UMul(width, height)
        t2 == USub(t1.val, 1)
    IN  [val |-> t2.val, ovf |-> t1.ovf \/ t2.ovf]

\* let src_idx = y * self.width + x
SrcIdx(col, row) == row * width + col

\* Mutant of ZeroBranchValue: a cold source writes the hottest value.
ZeroBranchSpark(src_pixel) == Len(PALETTE) - 1

\* The value written above a source pixel that is 0: self.fire_pixels[dst_idx] = 0
ZeroBranchValue(src_pixel) == 0

\* Mutant of Decayed: the decay is added instead of subtracted.
DecayedUp(src_pixel, rand) == src_pixel + (rand % 2)

\* Mutant of Decayed: an odd draw takes two levels off.
DecayedTwice(src_pixel, rand) == src_pixel - 2 * (rand % 2)

\* Mutant of Decayed: the intensity drops by one whatever is drawn.
DecayedAlways(src_pixel, rand) == src_pixel - 1

\* src_pixel - (rand & 1)
Decayed(src_pixel, rand) == src_pixel - (rand % 2)

\* Mutant of LitDst: the drift has the opposite sign.
LitDstMirrored(src_idx, rand) ==
    LET t1 == UAdd(src_idx, rand)
        t2 == USub(t1.val, 1)
        t3 == USub(t2.val, width)
    IN  [val |-> t3.val, ovf |-> t1.ovf \/ t2.ovf \/ t3.ovf]

\* Mutant of LitDst: the step one row up is left out.
LitDstSameRow(src_idx, rand) ==
    LET t1 == USub(src_idx, rand)
        t2 == UAdd(t1.val, 1)
    IN  [val |-> t2.val, ovf |-> t1.ovf \/ t2.ovf]

\* (src_idx - rand + 1) - self.width
LitDst(src_idx, rand) ==
    LET t1 == USub(src_idx, rand)
        t2 == UAdd(t1.val, 1)
        t3 == USub(t2.val, width)
    IN  [val |-> t3.val, ovf |-> t1.ovf \/ t2.ovf \/ t3.ovf]

\* (src_idx - rand + 1) - self.width * rand2
UnlitDst(src_idx, rand, rand2) ==
    LET t1 == USub(src_idx, rand)
        t2 == UAdd(t1.val, 1)
        m  == UMul(width, rand2)
        t3 == USub(t2.val, m.val)
    IN  [val |-> t3.val, ovf |-> t1.ovf \/ t2.ovf \/ m.ovf \/ t3.ovf]

\* if dst_idx > max_idx { max_idx } else { dst_idx }
Clamp(dst_idx, max_idx) == IF dst_idx > max_idx THEN max_idx ELSE dst_idx

\* Mutant of Advance: rows are the outer loop and columns the inner loop.
AdvanceRowMajor ==
    IF x + 1 < width
    THEN /\ x' = x + 1
         /\ y' = y
         /\ pc' = "update"
         /\ updates' = updates
    ELSE IF y + 1 < height
    THEN /\ x' = 0
         /\ y' = y + 1
         /\ pc' = "update"
         /\ updates' = updates
    ELSE /\ x' = 0
         /\ y' = 0
         /\ pc' = "idle"
         /\ updates' = updates + 1

\* The loop position after the iteration (x, y), or the return of update.
Advance ==
    IF y + 1 < height
    THEN /\ x' = x
         /\ y' = y + 1
         /\ pc' = "update"
         /\ updates' = updates
    ELSE IF x + 1 < width
    THEN /\ x' = x + 1
         /\ y' = 1
         /\ pc' = "update"
         /\ updates' = updates
    ELSE /\ x' = 0
         /\ y' = 0
         /\ pc' = "idle"
         /\ updates' = updates + 1

\* self.fire_pixels[dst_idx] = value, then the next iteration.
WritePixel(dst_idx, value) ==
    /\ fire_pixels' = [fire_pixels EXCEPT ![dst_idx] = value]
    /\ last_write' = << dst_idx, value >>
    /\ Advance

\* The iteration panics: the grid keeps what was written so far.
PanicInUpdate ==
    /\ pc' = "panicked"
    /\ last_write' = << >>
    /\ UNCHANGED << fire_pixels, x, y, updates >>

\* The write of one iteration at destination d (a usize result), unclamped.
WriteChecked(d, value) ==
    IF OverflowPanics(d) \/ ~InBounds(d.val)
    THEN PanicInUpdate
    ELSE WritePixel(d.val, value)

\* The write of one iteration at destination d, clamped to max_idx first.
WriteClamped(d, value) ==
    IF OverflowPanics(d) \/ ~InBounds(Clamp(d.val, MaxIdx.val))
    THEN PanicInUpdate
    ELSE WritePixel(Clamp(d.val, MaxIdx.val), value)

\* update() is called: max_idx is computed and the loops are entered.
\* limit bounds the number of calls explored.
UpdateBegin(limit) ==
    /\ pc = "idle"
    /\ updates < limit
    /\ last_call' = "update"
    /\ ignites' = 0
    /\ last_write' = << >>
    /\ drawn' = << >>
    /\ frame' = << >>
    /\ IF OverflowPanics(MaxIdx)
       THEN /\ pc' = "panicked"
            /\ UNCHANGED << x, y, updates >>
       ELSE IF width >= 1 /\ height >= 2
       THEN /\ pc' = "update"
            /\ x' = 0
            /\ y' = 1
            /\ updates' = updates
       ELSE /\ pc' = "idle"
            /\ updates' = updates + 1
            /\ UNCHANGED << x, y >>
    /\ UNCHANGED << width, height, overflow_checks, is_lit, fire_pixels, last_switch >>

\* One iteration of update's loop body, for the source cell (x, y); the
\* draws are taken from R (rand) and R2 (rand2).
UpdateCell(R, R2) ==
    /\ pc = "update"
    /\ LET src_idx   == SrcIdx(x, y)
           src_pixel == fire_pixels[src_idx]
       IN  IF src_pixel = 0
           THEN /\ drawn' = << >>
                /\ WritePixel(src_idx - width, ZeroBranchValue(src_pixel))
           ELSE \E rand \in R :
                  /\ drawn' = << rand >>
                  /\ IF is_lit
                     THEN WriteChecked(LitDst(src_idx, rand), Decayed(src_pixel, rand))
                     ELSE \E rand2 \in R2 :
                            WriteClamped(UnlitDst(src_idx, rand, rand2),
                                         Decayed(src_pixel, rand))
    /\ UNCHANGED << width, height, overflow_checks, is_lit, last_call, last_switch, ignites, frame >>

---------------------------------------------------------------------------
(* draw *)

\* The caller's buffer before the call: n bytes, none of them a palette byte.
BlankFrame(n) == [k \in 1 .. n |-> 0]

\* The lengths of the buffers draw is tried with.
FrameLens == { n \in 0 .. (width * height * 4 + MaxSlack) :
                 n >= width * height * 4 - MaxSlack }

\* frame.chunks_exact_mut(4): the number of whole 4-byte chunks.
ChunksExact(buf) == Len(buf) \div 4

\* Mutant of DrawFrame: only the three colour bytes of a chunk are copied.
DrawFrameRgb(buf, pixels, n) ==
    [k \in 1 .. Len(buf) |->
        IF (k - 1) \div 4 < n /\ (k - 1) % 4 < 3
        THEN PaletteAt(pixels[(k - 1) \div 4])[((k - 1) % 4) + 1]
        ELSE buf[k]]

\* The buffer after the chunks 0 .. n-1 have been filled:
\* pixel.copy_from_slice(&PALETTE[self.fire_pixels[i]])
DrawFrame(buf, pixels, n) ==
    [k \in 1 .. Len(buf) |->
        IF (k - 1) \div 4 < n
        THEN PaletteAt(pixels[(k - 1) \div 4])[((k - 1) % 4) + 1]
        ELSE buf[k]]

Draw ==
    /\ pc = "idle"
    /\ last_call' = "draw"
    /\ ignites' = 0
    /\ last_write' = << >>
    /\ drawn' = << >>
    /\ \E n \in FrameLens :
         LET buf == BlankFrame(n)
         IN  IF ChunksExact(buf) <= width * height
             THEN /\ frame' = DrawFrame(buf, fire_pixels, ChunksExact(buf))
                  /\ pc' = "idle"
             ELSE \* self.fire_pixels[i] is out of bounds at i = width * height
                  /\ frame' = DrawFrame(buf, fire_pixels, width * height)
                  /\ pc' = "panicked"
    /\ UNCHANGED << width, height, overflow_checks, is_lit, fire_pixels, x, y, updates,
                   last_switch >>

---------------------------------------------------------------------------
(* The program: any sequence of calls on a constructed Doomfire. *)

UpdateStart == UpdateBegin(MaxUpdates)

UpdateStep == UpdateCell(Rands, Rands)

Next ==
    \/ Ignite
    \/ Extinguish
    \/ UpdateStart
    \/ UpdateStep
    \/ Draw

Spec == Init /\ [][Next]_vars

---------------------------------------------------------------------------
(* The decay scenario: new(4, 4), ignite(), extinguish(), then update()    *)
(* 10 * height times.  The draws are restricted to DecayRands for rand and *)
(* DecayRands2 for rand2, both subsets of Rands, so every behaviour of     *)
(* SpecDecay is a behaviour of the program.                                *)

DecayRands == { RandOf(k) : k \in {0} }

DecayRands2 == { RandOf(k) : k \in {0, 1} }

InitDecay ==
    /\ width = 4
    /\ height = 4
    /\ overflow_checks \in BOOLEAN
    /\ is_lit = FALSE
    /\ fire_pixels = NewPixels(width, height)
    /\ pc = "idle"
    /\ x = 0
    /\ y = 0
    /\ updates = 0
    /\ last_call = "new"
    /\ last_switch = "none"
    /\ ignites = 0
    /\ last_write = << >>
    /\ drawn = << >>
    /\ frame = << >>

DecayIgnite == last_call = "new" /\ Ignite

DecayExtinguish == last_call = "ignite" /\ Extinguish

DecayUpdateStart == last_call \in {"extinguish", "update"} /\ UpdateBegin(10 * height)

DecayUpdateStep == UpdateCell(DecayRands, DecayRands2)

NextDecay ==
    \/ DecayIgnite
    \/ DecayExtinguish
    \/ DecayUpdateStart
    \/ DecayUpdateStep

SpecDecay == InitDecay /\ [][NextDecay]_vars

---------------------------------------------------------------------------
(* Shorthands of the claims. *)

Cells == DOMAIN fire_pixels

\* The cells of the bottom row, row height-1.
BottomRow == { i \in Cells : i >= (height - 1) * width }

AllZero == \A i \in Cells : fire_pixels[i] = 0

ValidDims == width >= 1 /\ height >= 1

\* The highest intensity of a grid, 0 for the empty grid.
GridMax(pixels) ==
    IF DOMAIN pixels = {}
    THEN 0
    ELSE CHOOSE m \in { pixels[i] : i \in DOMAIN pixels } :
           \A i \in DOMAIN pixels : pixels[i] <= m

\* The row and the column of the cell at flat index i.
Row(i) == i \div width

Col(i) == i % width

\* This step is an iteration of update's loop that wrote a cell: the source
\* cell is (x, y), the write is last_write' and the draw is drawn'.
WroteStep == pc = "update" /\ last_write' # << >>

---------------------------------------------------------------------------
(* The claims. *)

\* C1: in every reachable state, whatever calls of ignite, extinguish and
\* update led to it, every cell of the grid holds a value in 0 .. 36.
C1_CellsInRange == \A i \in Cells : fire_pixels[i] \in 0 .. 36

\* C1 witness: after two updates of an ignited and then extinguished fire
\* the grid holds the hottest value and a value that has decayed twice.
C1_Witness ==
    /\ pc = "idle"
    /\ updates >= 2
    /\ ~is_lit
    /\ \E i, j \in Cells : fire_pixels[i] = 36 /\ fire_pixels[j] = 34

\* C2: update never crashes: on a grid of valid dimensions no call of update
\* panics, in either mode and whatever is drawn, because every destination is
\* brought into 0 .. width*height-1 before it is written.
C2_UpdateNeverPanics == (ValidDims /\ last_call = "update") => pc # "panicked"

\* C3: after new(4,4), ignite(), extinguish(), once update() has returned
\* 10 * height times every cell of the grid is 0.
C3_DecayReachesZero ==
    (width = 4 /\ height = 4 /\ ~is_lit /\ pc = "idle" /\ updates = 10 * height)
        => AllZero

\* C4: an all-zero grid stays all-zero under every step of update, lit or
\* not and whatever is drawn; only ignite makes a cell of it nonzero.
C4_AllZeroFixedPoint == [][(AllZero /\ ~AllZero') => last_call' = "ignite"]_vars

\* C4 witness: update has run to its end on a non-empty all-zero grid with
\* source rows.
C4_Witness ==
    /\ pc = "idle"
    /\ last_call = "update"
    /\ updates >= 1
    /\ width >= 1
    /\ height >= 2
    /\ AllZero

C6_IgniteBottomRow ==
    [][last_call' = "ignite" =>
          /\ \A i \in Cells \ BottomRow : fire_pixels'[i] = fire_pixels[i]
          /\ (last_call = "new" /\ ValidDims) =>
                /\ pc' = "idle"
                /\ is_lit'
                /\ \A i \in Cells :
                      fire_pixels'[i] = IF i \in BottomRow THEN 36 ELSE 0]_vars

\* C6 witness: ignite has been called on a grid whose rows above the bottom
\* row hold heat of an earlier update.
C6_Witness ==
    /\ last_call = "ignite"
    /\ pc = "idle"
    /\ is_lit
    /\ updates >= 1
    /\ \E i \in Cells \ BottomRow : fire_pixels[i] > 0

\* C7: ignite called right after ignite changes neither the grid nor the
\* lit flag.
C7_IgniteIdempotent ==
    [][(last_call = "ignite" /\ last_call' = "ignite") =>
          /\ fire_pixels' = fire_pixels
          /\ is_lit' = is_lit
          /\ pc' = pc]_vars

\* C7 witness: ignite has been called twice in a row on a grid that an
\* update had changed.
C7_Witness ==
    /\ last_call = "ignite"
    /\ ignites = 2
    /\ updates >= 1
    /\ BottomRow # {}
    /\ \E i \in Cells \ BottomRow : fire_pixels[i] > 0

\* C8: draw with a buffer of exactly width*height*4 bytes returns with the
\* palette colour of cell i in bytes 4i .. 4i+3, for every cell i, and
\* changes neither the grid nor the lit flag.
C8_DrawMatchesGrid ==
    [][(last_call' = "draw" /\ Len(frame') = width * height * 4) =>
          /\ pc' = "idle"
          /\ fire_pixels' = fire_pixels
          /\ is_lit' = is_lit
          /\ \A i \in Cells : \A j \in 1 .. 4 :
                frame'[4 * i + j] = PALETTE[fire_pixels[i] + 1][j]]_vars

\* C8 witness: a full frame has been drawn of a grid holding two different
\* nonzero intensities next to cold cells.
C8_Witness ==
    /\ last_call = "draw"
    /\ pc = "idle"
    /\ Len(frame) = width * height * 4
    /\ \E i, j, k \in Cells :
          /\ fire_pixels[i] = 36
          /\ fire_pixels[j] = 35
          /\ fire_pixels[k] = 0

\* C9: draw with a buffer whose length is not width*height*4 ends in an
\* error (a panic), on every grid of valid dimensions.
C9_WrongLengthFails ==
    (ValidDims /\ last_call = "draw" /\ Len(frame) # width * height * 4)
        => pc = "panicked"

\* C10: no Doomfire exists with a zero width or a zero height: construction
\* with such dimensions fails, so every field there is has width >= 1 and
\* height >= 1.
C10_ZeroDimsRejected == ValidDims

\* C11: the lit flag is false after construction, true once an ignite has
\* returned and false once an extinguish has returned, so in every state it
\* is true exactly when the last of the two to return was ignite; and no
\* step of update and no draw changes it.
C11_LitFollowsLastSwitch ==
    /\ [](is_lit <=> last_switch = "ignite")
    /\ [][last_call' \in {"update", "draw"} => is_lit' = is_lit]_vars

\* C11 witness: two updates have run to their end on a grid with source rows
\* since the fire was ignited, and the flag is still true.
C11_Witness ==
    /\ is_lit
    /\ last_switch = "ignite"
    /\ last_call = "update"
    /\ pc = "idle"
    /\ updates >= 2
    /\ width >= 1
    /\ height >= 2

\* C12: once extinguish has returned, every cell of the bottom row is 0.
C12_ExtinguishClearsBottomRow ==
    last_call = "extinguish" => \A i \in BottomRow : fire_pixels[i] = 0

\* C16: in every state in which the fire is lit, every cell of the bottom
\* row holds 36: no step of update taken while lit lowers a bottom-row cell.
C16_LitBottomRowHot == is_lit => \A i \in BottomRow : fire_pixels[i] = 36

\* C16 witness: two updates have run on a lit grid with rows above the
\* bottom row, and heat has risen.
C16_Witness ==
    /\ is_lit
    /\ pc = "idle"
    /\ updates >= 2
    /\ height >= 2
    /\ width >= 2
    /\ \E i \in Cells \ BottomRow : fire_pixels[i] > 0

\* C13 as claimed: every write of update targets a row strictly above the
\* row of its source cell.
C13_WritesStrictlyAbove == [][WroteStep => Row(last_write'[1]) < y]_vars

\* C13 as amended: a lit write targets the source's row or a row above it,
\* and a row strictly above unless the source is in the last column and
\* rand = 0, when it targets column 0 of the source's own row; an unlit
\* write targets the source's row or a row above it, the cell right after
\* the source in flat order, or the last cell of the grid.
C13_WritesAtOrAbove ==
    [][WroteStep =>
          LET dst == last_write'[1]
          IN  IF is_lit
              THEN /\ Row(dst) <= y
                   /\ Row(dst) = y =>
                         (x = width - 1 /\ drawn' = << 0 >> /\ Col(dst) = 0)
              ELSE \/ Row(dst) <= y
                   \/ dst = SrcIdx(x, y) + 1
                   \/ dst = width * height - 1]_vars

\* C13 witness: the iteration that just ran, lit, for the source in the
\* last column of row y-1 drew rand = 0 and wrote column 0 of that same row,
\* on a grid at least two cells wide.
C13_Witness ==
    /\ pc = "update"
    /\ is_lit
    /\ width >= 2
    /\ x = width - 1
    /\ drawn = << 0 >>
    /\ last_write # << >>
    /\ last_write[1] = (y - 1) * width

\* C14 as claimed: lit, an iteration for a nonzero source at row y, column
\* x that drew rand writes the decayed intensity to the cell at row y-1,
\* column x+1-rand.
C14_LitDriftCell ==
    [][(WroteStep /\ is_lit /\ drawn' # << >>) =>
          LET rand == drawn'[1]
          IN  /\ Row(last_write'[1]) = y - 1
              /\ Col(last_write'[1]) = x + 1 - rand
              /\ last_write'[2] = fire_pixels[SrcIdx(x, y)] - (rand % 2)]_vars

\* C14 as amended: lit, an iteration for a nonzero source at row y, column
\* x that drew rand writes the decayed intensity at the flat index
\* (y-1)*width + x+1-rand, and panics when that index is negative; the
\* index is the cell at row y-1, column x+1-rand when 0 <= x+1-rand < width.
C14_LitDriftIndex ==
    [][(pc = "update" /\ is_lit /\ drawn' # << >>) =>
          LET rand == drawn'[1]
              flat == (y - 1) * width + x + 1 - rand
          IN  IF flat < 0
              THEN pc' = "panicked"
              ELSE /\ last_write' =
                        << flat, fire_pixels[SrcIdx(x, y)] - (rand % 2) >>
                   /\ fire_pixels'[flat] = last_write'[2]
                   /\ (x + 1 - rand \in 0 .. (width - 1)) =>
                         (Row(flat) = y - 1 /\ Col(flat) = x + 1 - rand)]_vars

\* C14 witness: update has returned after its last iteration, lit, for the
\* bottom-right source drew rand = 3 and wrote 35 one row up, two columns
\* to the left.
C14_Witness ==
    /\ pc = "idle"
    /\ is_lit
    /\ width >= 3
    /\ height >= 2
    /\ drawn = << 3 >>
    /\ last_write = << (height - 2) * width + width - 3, 35 >>

\* The write of this iteration is what its destination holds afterwards, and
\* every other cell keeps its value: a later write to a cell replaces an
\* earlier one.
LastWriteWins ==
    /\ last_write' # << >>
    /\ fire_pixels'[last_write'[1]] = last_write'[2]
    /\ \A i \in Cells \ {last_write'[1]} : fire_pixels'[i] = fire_pixels[i]

\* C15 as claimed: within one update the source cells are visited with rows
\* as the outer loop and columns as the inner loop, both ascending, and the
\* last write to a cell in that order is the one that remains.
C15_RowsOuter ==
    [][(pc = "update" /\ pc' # "panicked") =>
          /\ LastWriteWins
          /\ IF x + 1 < width
             THEN pc' = "update" /\ x' = x + 1 /\ y' = y
             ELSE IF y + 1 < height
             THEN pc' = "update" /\ x' = 0 /\ y' = y + 1
             ELSE pc' = "idle"]_vars

\* C15 as amended: within one update the source cells are visited with
\* columns as the outer loop and rows as the inner loop, both ascending
\* from (column 0, row 1), and the last write to a cell in that order is the
\* one that remains.
C15_ColumnsOuter ==
    [][/\ (pc = "idle" /\ pc' = "update") => (x' = 0 /\ y' = 1)
       /\ (pc = "update" /\ pc' # "panicked") =>
             /\ LastWriteWins
             /\ IF y + 1 < height
                THEN pc' = "update" /\ x' = x /\ y' = y + 1
                ELSE IF x + 1 < width
                THEN pc' = "update" /\ x' = x + 1 /\ y' = 1
                ELSE pc' = "idle"]_vars

\* C15 witness: the bottom cell of column x-1 has just written 36 to the
\* cell (column x, row 1), which is the source of the next iteration, so the
\* value that iteration reads depends on the order of the loops.
C15_Witness ==
    /\ pc = "update"
    /\ is_lit
    /\ height >= 3
    /\ x >= 1
    /\ y = 1
    /\ last_write = << SrcIdx(x, y), 36 >>

\* C17: every value an iteration of update writes is 0 when the source it
\* read is 0, and otherwise the source's value or one less; and the highest
\* intensity of the grid rises in no step but a step of ignite.
C17_WritesNeverRaise ==
    [][/\ WroteStep =>
             LET src == fire_pixels[SrcIdx(x, y)]
             IN  IF src = 0
                 THEN last_write'[2] = 0
                 ELSE last_write'[2] \in {src, src - 1}
       /\ GridMax(fire_pixels') > GridMax(fire_pixels) => last_call' = "ignite"]_vars

\* C17 witness: an update of an extinguished fire has returned, its last
\* write holds the highest intensity left, and that is below 36 on a grid
\* at least two cells wide.
C17_Witness ==
    /\ pc = "idle"
    /\ ~is_lit
    /\ last_call = "update"
    /\ width >= 2
    /\ last_write # << >>
    /\ last_write[2] = GridMax(fire_pixels)
    /\ GridMax(fire_pixels) \in 1 .. 35

===========================================================================
